---------------------------- MODULE Spec2Model ----------------------------
(***************************************************************************)
(* A model of grep-ast-go's TreeContext (grepast.go): the per-line         *)
(* structural index built by NewTreeContext (walkTree and                  *)
(* postWalkProcessing), the match engine Grep, the line-of-interest set,   *)
(* the context expander AddContext (addParentScopes, addChildContext,      *)
(* closeSmallGaps) and the renderer Format.                                *)
(*                                                                         *)
(* Go slices indexed from 0 are functions over 0..n-1; Go maps used as     *)
(* sets (map[int]struct{}) are sets.  The syntax tree of the parsing       *)
(* backend is a sequence of its named nodes in pre-order, each with its    *)
(* start row, end row and the position of its parent (0 for the root).     *)
(***************************************************************************)
EXTENDS Integers, Sequences, FiniteSets, Bags, TLC

\* ------------------------------------------------------------- bounds

\* Longest file (number of "\n"-delimited segments) of the index specification.
MaxLines == 4

\* Most named nodes of a syntax tree of the index specification.
MaxNodes == 3

\* Largest HeaderMax option.
MaxHeader == 3

\* Lines of the files with blank lines.
FileLines == 5

\* Lines of the files under every small syntax tree.
ScopeLines == 4

\* Most named nodes of those trees.
ScopeNodes == 3

\* Lines of the files with large scopes.
LongLines == 8

\* Most blank lines of those files.
MaxBlank == 2

\* Most lines of interest a caller marks.
MaxInterest == 2

\* Largest LinesOfInterestPadding option.
MaxPad == 1

\* Largest MarginPadding option.
MaxMargin == 1

\* ------------------------------------------------------------ helpers

\* A Go slice of length n, every element v.
MakeSlice(n, v) == [i \in 0 .. n - 1 |-> v]

\* len() of a Go slice held as a function over 0..n-1.
Len0(s) == Cardinality(DOMAIN s)

\* ------------------------------------------------------- syntax trees

\* The nodes of tree t whose parent is node p, in child order.
ChildrenOf(t, p) == SelectSeq([k \in 1 .. Len(t) |-> k], LAMBDA k : t[k].parent = p)

\* The nodes a further node of a pre-order listing can hang under: the last
\* node and its ancestors.
RECURSIVE RightPath(_, _)
RightPath(t, k) == IF k = 0 THEN {} ELSE {k} \cup RightPath(t, t[k].parent)

\* The first row a new last child of p may start on: the end row of p's last
\* child so far (siblings do not overlap, but may share a row), or p's start.
FirstFreeRow(t, p) ==
    LET kids == ChildrenOf(t, p)
    IN  IF Len(kids) = 0 THEN t[p].start ELSE t[kids[Len(kids)]].end

\* Every way to append one more node to the pre-order listing t.
Extensions(t) ==
    { Append(t, [start |-> s, end |-> e, parent |-> p]) :
        <<p, s, e>> \in { x \in RightPath(t, Len(t)) \X (t[1].start .. t[1].end)
                                                      \X (t[1].start .. t[1].end) :
                            /\ FirstFreeRow(t, x[1]) <= x[2]
                            /\ x[2] <= x[3]
                            /\ x[3] <= t[x[1]].end } }

\* Every syntax tree of exactly n named nodes over a file of L lines.
RECURSIVE TreesOfSize(_, _)
TreesOfSize(L, n) ==
    IF n = 1
    THEN { << [start |-> s, end |-> e, parent |-> 0] >> :
             <<s, e>> \in { x \in (0 .. L - 1) \X (0 .. L - 1) : x[1] <= x[2] } }
    ELSE UNION { Extensions(t) : t \in TreesOfSize(L, n - 1) }

\* Every syntax tree of at most n named nodes over a file of L lines.
TreesUpTo(L, n) == UNION { TreesOfSize(L, k) : k \in 1 .. n }

\* ------------------------------------------------------ scope indexer

\* The three per-line maps as NewTreeContext allocates them: numLines+1
\* entries, empty scope sets, headers {0, 0} and empty node lists.
EmptyIndex(n) ==
    [ scopes |-> MakeSlice(n + 1, {}),
      header |-> MakeSlice(n + 1, <<0, 0>>),
      nodes  |-> MakeSlice(n + 1, <<>>) ]

\* The header candidate walkTree stores for a node: {size, startLine, endLine}.
HeaderCandidate(size, startLine, endLine) == <<size, startLine, endLine>>

\* StoreHeader with the slip of keeping the candidate of the largest node
\* instead of overwriting.
StoreHeaderLargest(header, size, startLine, endLine) ==
    IF size > 0 /\ startLine < Len0(header) /\ size > header[startLine][1]
    THEN [header EXCEPT ![startLine] = HeaderCandidate(size, startLine, endLine)]
    ELSE header

\* walkTree's write to tc.header[startLine] for one node: every node with
\* size > 0 overwrites what an earlier node starting on that line stored.
StoreHeader(header, size, startLine, endLine) ==
    IF size > 0 /\ startLine < Len0(header)
    THEN [header EXCEPT ![startLine] = HeaderCandidate(size, startLine, endLine)]
    ELSE header

\* walkTree(node): record the node at its start line, store its header
\* candidate, add its start line to the scope set of every line it spans,
\* then walk its named children in order.
RECURSIVE walkTree(_, _, _)
RECURSIVE walkChildren(_, _, _, _)
walkTree(t, idx, node) ==
    LET startLine == t[node].start
        endLine   == t[node].end
        size      == endLine - startLine
    IN  IF startLine < 0 \/ startLine >= Len0(idx.nodes)
        THEN idx
        ELSE LET idx1 ==
                   [ nodes  |-> [idx.nodes EXCEPT ![startLine] = Append(@, node)],
                     header |-> StoreHeader(idx.header, size, startLine, endLine),
                     scopes |-> [i \in DOMAIN idx.scopes |->
                                   IF startLine <= i /\ i <= endLine
                                   THEN idx.scopes[i] \cup {startLine}
                                   ELSE idx.scopes[i]] ]
             IN  walkChildren(t, idx1, ChildrenOf(t, node), 1)
walkChildren(t, idx, kids, j) ==
    IF j > Len(kids) THEN idx
    ELSE walkChildren(t, walkTree(t, idx, kids[j]), kids, j + 1)

\* FinalHeader with the slip of clamping headEnd to headerMax instead of
\* headStart + headerMax.
FinalHeaderClampAbs(headerSlice, i, hMax) ==
    IF Len(headerSlice) < 2
    THEN <<i, i + 1>>
    ELSE LET size      == headerSlice[1]
             headStart == headerSlice[2]
             headEnd0  == IF Len(headerSlice) > 2 THEN headerSlice[3]
                                                  ELSE headerSlice[2] + 1
             headEnd   == IF size > hMax THEN hMax ELSE headEnd0
         IN  <<headStart, headEnd>>

\* postWalkProcessing's body for line i: the header interval {headStart,
\* headEnd} finalised from what the walk left in tc.header[i].
FinalHeader(headerSlice, i, hMax) ==
    IF Len(headerSlice) < 2
    THEN <<i, i + 1>>
    ELSE LET size      == headerSlice[1]
             headStart == headerSlice[2]
             headEnd0  == IF Len(headerSlice) > 2 THEN headerSlice[3]
                                                  ELSE headerSlice[2] + 1
             headEnd   == IF size > hMax THEN headStart + hMax ELSE headEnd0
         IN  <<headStart, headEnd>>

\* postWalkProcessing: finalise every line i < tc.numLines.
postWalkProcessing(header, n, hMax) ==
    [i \in DOMAIN header |-> IF i < n THEN FinalHeader(header[i], i, hMax) ELSE header[i]]


\* ------------------------------------------------------- match engine

\* The highlight markers Grep wraps a match in ("\033[1;31m" and "\033[0m").
HlOn == "ESC[1;31m"

HlOff == "ESC[0m"

\* regexp.MustCompile's verdict: the pattern source "(" has no closing
\* parenthesis and does not compile, with or without the "(?i)" prefix.
Compiles(src) == src # "("

\* The pattern Grep compiles: pat, prefixed with "(?i)" when ignoreCase.
CompilePattern(pat, ignoreCase) == [src |-> pat, fold |-> ignoreCase]

\* Whether the compiled one-letter pattern re matches character c.
MatchesChar(re, c) == c = re.src \/ (re.fold /\ re.src = "a" /\ c = "A")

\* re.FindStringIndex(line) != nil
FindStringIndex(re, line) == \E k \in 1 .. Len(line) : MatchesChar(re, line[k])

\* re.ReplaceAllStringFunc(line, wrap): every match wrapped in the markers.
RECURSIVE ReplaceAllStringFunc(_, _)
ReplaceAllStringFunc(re, line) ==
    IF line = <<>> THEN <<>>
    ELSE (IF MatchesChar(re, Head(line)) THEN <<HlOn, Head(line), HlOff>>
                                         ELSE <<Head(line)>>)
         \o ReplaceAllStringFunc(re, Tail(line))

\* ---------------------------------------------------- context expander

\* strings.TrimSpace(line) == ""
IsBlank(line) == \A k \in 1 .. Len(line) : line[k] = " "

\* mapKeysSorted: the keys of a set in ascending order.
RECURSIVE mapKeysSorted(_)
mapKeysSorted(m) ==
    IF m = {} THEN <<>>
    ELSE LET lo == CHOOSE x \in m : \A y \in m : x <= y
         IN  <<lo>> \o mapKeysSorted(m \ {lo})

\* getLastLineOfScope(i): the largest end row of the nodes starting on line
\* i (never below 0), or i itself when none starts there.
RECURSIVE MaxEndRow(_, _, _, _)
MaxEndRow(t, ns, k, lastLine) ==
    IF k > Len(ns) THEN lastLine
    ELSE MaxEndRow(t, ns, k + 1, IF t[ns[k]].end > lastLine THEN t[ns[k]].end ELSE lastLine)

getLastLineOfScope(t, nds, i) ==
    IF i < 0 \/ i >= Len0(nds) \/ Len(nds[i]) = 0 THEN i
    ELSE MaxEndRow(t, nds[i], 1, 0)

\* RevealHeader with the slip of && for || in the top-of-file test.
RevealHeaderAnd(headerSlice, n, showTop) ==
    IF Len(headerSlice) >= 2 /\ (headerSlice[1] > 0 /\ showTop)
    THEN { ln \in headerSlice[1] .. headerSlice[2] - 1 : ln < n }
    ELSE {}

\* The lines addParentScopes reveals for one scope owner: its header interval
\* clipped to tc.numLines, unless the header starts on line 0 and
\* showTopOfFileParentScope is off.
RevealHeader(headerSlice, n, showTop) ==
    IF Len(headerSlice) >= 2 /\ (headerSlice[1] > 0 \/ showTop)
    THEN { ln \in headerSlice[1] .. headerSlice[2] - 1 : ln < n }
    ELSE {}

\* addParentScopes(i) on st = [show, done]: memoised on done; reveals the
\* header of every scope of line i and, with lastLine, recurses into the last
\* line of each such scope.  c holds the read-only index and options.
RECURSIVE addParentScopes(_, _, _)
RECURSIVE ParentScopesLoop(_, _, _, _)
addParentScopes(c, st, i) ==
    IF i < 0 \/ i >= Len0(c.scopes) THEN st
    ELSE IF i \in st.done THEN st
    ELSE ParentScopesLoop(c, [st EXCEPT !.done = @ \cup {i}], mapKeysSorted(c.scopes[i]), 1)
ParentScopesLoop(c, st, owners, k) ==
    IF k > Len(owners) THEN st
    ELSE LET lineNum == owners[k]
             st1 == [st EXCEPT !.show = @ \cup RevealHeader(c.header[lineNum], c.numLines, c.showTop)]
             st2 == IF c.lastLine /\ Len(c.header[lineNum]) >= 2
                    THEN addParentScopes(c, st1, getLastLineOfScope(c.tree, c.nodes, lineNum))
                    ELSE st1
         IN  ParentScopesLoop(c, st2, owners, k + 1)

\* findAllChildren(node): the node and all its named descendants, pre-order.
RECURSIVE findAllChildren(_, _)
RECURSIVE FindInChildren(_, _, _)
findAllChildren(t, node) == <<node>> \o FindInChildren(t, ChildrenOf(t, node), 1)
FindInChildren(t, kids, j) ==
    IF j > Len(kids) THEN <<>>
    ELSE findAllChildren(t, kids[j]) \o FindInChildren(t, kids, j + 1)

NodeSize(t, node) == t[node].end - t[node].start

\* sortNodesBySize: for i, for j > i: swap when nodes[j] is larger than
\* nodes[i] (descending by size; the order of equal sizes is what the swaps
\* leave).
RECURSIVE SortInner(_, _, _, _)
SortInner(t, ns, i, j) ==
    IF j > Len(ns) THEN ns
    ELSE SortInner(t,
                   IF NodeSize(t, ns[j]) > NodeSize(t, ns[i])
                   THEN [ns EXCEPT ![i] = ns[j], ![j] = ns[i]]
                   ELSE ns,
                   i, j + 1)

RECURSIVE SortOuter(_, _, _)
SortOuter(t, ns, i) ==
    IF i > Len(ns) THEN ns ELSE SortOuter(t, SortInner(t, ns, i, i + 1), i + 1)

sortNodesBySize(t, ns) == SortOuter(t, ns, 1)

\* The constants of addChildContext: maxToShow, minToShow and percentToShow
\* (0.10, held as a percentage).
MaxToShow == 25

MinToShow == 5

PercentToShow == 10

\* computedMax: int(float64(size)*percentToShow + 0.5), clamped to
\* [minToShow, maxToShow].
ComputedMax(size) ==
    LET raw == (size * PercentToShow + 50) \div 100
    IN  IF raw < MinToShow THEN MinToShow
        ELSE IF raw > MaxToShow THEN MaxToShow ELSE raw

\* The children to expand for line i: every descendant of every node that
\* starts on line i, sorted by size.
RECURSIVE GatherChildren(_, _, _)
GatherChildren(t, ns, k) ==
    IF k > Len(ns) THEN <<>>
    ELSE findAllChildren(t, ns[k]) \o GatherChildren(t, ns, k + 1)

\* The loop of addChildContext over the sorted children: stop once more
\* than computedMax lines were added since the call began.
RECURSIVE ChildLoop(_, _, _, _, _)
ChildLoop(c, st, children, k, limit) ==
    IF k > Len(children) THEN st
    ELSE IF Cardinality(st.show) > limit THEN st
    ELSE ChildLoop(c, addParentScopes(c, st, c.tree[children[k]].start), children, k + 1, limit)

\* addChildContext(i) on st = [show, done].
addChildContext(c, st, i) ==
    IF i < 0 \/ i >= Len0(c.nodes) THEN st
    ELSE IF Len(c.nodes[i]) = 0 THEN st
    ELSE LET lastLine == getLastLineOfScope(c.tree, c.nodes, i)
             size     == lastLine - i
         IN  IF size < 0 THEN st
             ELSE IF size < 5
             THEN [st EXCEPT !.show = @ \cup { line \in i .. lastLine : line < c.numLines }]
             ELSE LET children == sortNodesBySize(c.tree, GatherChildren(c.tree, c.nodes[i], 1))
                      currentlyShowing == Cardinality(st.show)
                  IN  ChildLoop(c, st, children, 1, currentlyShowing + ComputedMax(size))

\* GapFill with the slip of testing the gap with >= instead of ==.
GapFillAtLeast(sortedShow) ==
    { sortedShow[k] + 1 : k \in { j \in 1 .. Len(sortedShow) - 1 :
                                     sortedShow[j + 1] - sortedShow[j] >= 2 } }

\* closeSmallGaps, first loop: fill the line between two consecutive shown
\* lines that are exactly 2 apart.
GapFill(sortedShow) ==
    { sortedShow[k] + 1 : k \in { j \in 1 .. Len(sortedShow) - 1 :
                                     sortedShow[j + 1] - sortedShow[j] = 2 } }

\* PicksUpNextLine with the slip of stopping one line earlier.
PicksUpNextLineEarly(ls, n, i) ==
    /\ ~IsBlank(ls[i])
    /\ i < n - 3
    /\ Len0(ls) > i + 1
    /\ IsBlank(ls[i + 1])

\* The test closeSmallGaps makes on a line already in closedShow: the line is
\* not blank, lies before tc.numLines-2, and the next line exists and is blank.
PicksUpNextLine(ls, n, i) ==
    /\ ~IsBlank(ls[i])
    /\ i < n - 2
    /\ Len0(ls) > i + 1
    /\ IsBlank(ls[i + 1])

\* closeSmallGaps, second loop: walk the lines in order and pick up the blank
\* line after a shown line.
RECURSIVE BlankPickup(_, _, _, _)
BlankPickup(ls, n, closedShow, i) ==
    IF i >= Len0(ls) THEN closedShow
    ELSE BlankPickup(ls, n,
                     IF i \in closedShow /\ PicksUpNextLine(ls, n, i)
                     THEN closedShow \cup {i + 1} ELSE closedShow,
                     i + 1)

\* closeSmallGaps with the slip of not copying showLines into closedShow.
closeSmallGapsNoCopy(ls, n, show) ==
    BlankPickup(ls, n, GapFill(mapKeysSorted(show)), 0)

\* closeSmallGaps: copy showLines, fill the one-line gaps, pick up the blank
\* lines, and make the result the new showLines.
closeSmallGaps(ls, n, show) ==
    BlankPickup(ls, n, show \cup GapFill(mapKeysSorted(show)), 0)

\* Every order in which Go may range over a map holding the keys S.
RECURSIVE RangeOrders(_)
RangeOrders(S) ==
    IF S = {} THEN { <<>> }
    ELSE UNION { { <<x>> \o rest : rest \in RangeOrders(S \ {x}) } : x \in S }

\* The padding pass of AddContext: every line within loiPad of a line of
\* show, clipped to [0, tc.numLines).
PadLines(show, pad, n) ==
    IF pad > 0
    THEN show \cup { nl \in (0 .. n - 1) : \E line \in show : line - pad <= nl /\ nl <= line + pad }
    ELSE show

\* The trailing-line pass of AddContext.
BottomLinePass(c, st) ==
    IF c.lastLine
    THEN LET bottomLine == c.numLines - 2
         IN  addParentScopes(c, [st EXCEPT !.show = @ \cup {bottomLine}], bottomLine)
    ELSE st

\* The parent-context pass: addParentScopes for the lines of interest in the
\* order the range over the map yields them.
RECURSIVE ParentPass(_, _, _, _)
ParentPass(c, st, order, k) ==
    IF k > Len(order) THEN st
    ELSE ParentPass(c, addParentScopes(c, st, order[k]), order, k + 1)

\* The child-context pass, likewise.
RECURSIVE ChildPass(_, _, _, _)
ChildPass(c, st, order, k) ==
    IF k > Len(order) THEN st
    ELSE ChildPass(c, addChildContext(c, st, order[k]), order, k + 1)

\* The top-margin pass.
MarginPass(show, margin, n) ==
    IF margin > 0 THEN show \cup { i \in 0 .. margin - 1 : i < n } ELSE show

\* AddContext up to the child-context pass: seed showLines with the lines of
\* interest, pad, add the bottom line, add the parent scopes.
\* AddContext itself is a function of the context c (index and options), the
\* lines of interest, the state st = [show, done] and the order in which the
\* range loops over linesOfInterest visit it.
BeforeChildPass(c, loi, st, order) ==
    LET seeded == [st EXCEPT !.show = PadLines(@ \cup loi, c.loiPad, c.numLines)]
        bottom == BottomLinePass(c, seeded)
    IN  IF c.parentContext THEN ParentPass(c, bottom, order, 1) ELSE bottom

AddContextFrom(c, loi, st, order) ==
    IF loi = {} THEN st
    ELSE LET parent == BeforeChildPass(c, loi, st, order)
             child  == IF c.childContext THEN ChildPass(c, parent, order, 1) ELSE parent
         IN  [child EXCEPT !.show = closeSmallGaps(c.lines, c.numLines,
                                                    MarginPass(@, c.margin, c.numLines))]

\* ------------------------------------------------------------ renderer

\* What Format writes, piece by piece: the colour reset, an ellipsis marker
\* (the vertical-ellipsis line) or a shown line (the row it prints, its
\* 1-based number or 0 for none, its spacer and its text).
ResetPiece == [kind |-> "reset", row |-> -1, num |-> 0, spacer |-> "", text |-> <<>>]

EllipsisPiece == [kind |-> "ellipsis", row |-> -1, num |-> 0, spacer |-> "", text |-> <<>>]

\* lineOfInterestSpacer(i): a full block (red under colour) for a marked
\* line of interest, a thin bar otherwise.
lineOfInterestSpacer(loi, markLOIs, color, i) ==
    IF i \in loi /\ markLOIs
    THEN (IF color THEN "ESC[31mBLOCK ESC[0m" ELSE "BLOCK")
    ELSE "BAR"

\* highlightedOrOriginalLine(i, original)
highlightedOrOriginalLine(out, i, original) ==
    IF i \in DOMAIN out THEN out[i] ELSE original

\* The piece Format writes for the shown line i.
LinePiece(f, i) ==
    [ kind   |-> "line",
      row    |-> i,
      num    |-> IF f.lineNumber THEN i + 1 ELSE 0,
      spacer |-> lineOfInterestSpacer(f.loi, f.markLOIs, f.color, i),
      text   |-> highlightedOrOriginalLine(f.out, i, f.lines[i]) ]

\* FormatLoop with the slip of leaving printEllipsis set on a hidden line.
RECURSIVE FormatLoopEachHidden(_, _, _, _)
FormatLoopEachHidden(f, i, printEllipsis, acc) ==
    IF i >= Len0(f.lines) THEN acc
    ELSE IF i \notin f.show
    THEN FormatLoopEachHidden(f, i + 1, printEllipsis,
                              IF printEllipsis THEN Append(acc, EllipsisPiece) ELSE acc)
    ELSE FormatLoopEachHidden(f, i + 1, TRUE, Append(acc, LinePiece(f, i)))

\* The loop of Format from line i on: acc is what was written so far and
\* printEllipsis the flag of the same name.
RECURSIVE FormatLoop(_, _, _, _)
FormatLoop(f, i, printEllipsis, acc) ==
    IF i >= Len0(f.lines) THEN acc
    ELSE IF i \notin f.show
    THEN FormatLoop(f, i + 1, FALSE,
                    IF printEllipsis THEN Append(acc, EllipsisPiece) ELSE acc)
    ELSE FormatLoop(f, i + 1, TRUE, Append(acc, LinePiece(f, i)))

\* Format(): nothing when showLines is empty.
Format(f) ==
    IF f.show = {} THEN <<>>
    ELSE FormatLoop(f, 0, 0 \notin f.show, IF f.color THEN <<ResetPiece>> ELSE <<>>)

\* ------------------------------------------------------- line store

\* strings.Split(source, "\n") from position k on, cur being the segment
\* read so far: one segment per newline, plus the last one.
RECURSIVE SplitFrom(_, _, _)
SplitFrom(src, k, cur) ==
    IF k > Len(src) THEN <<cur>>
    ELSE IF src[k] = "\n" THEN <<cur>> \o SplitFrom(src, k + 1, <<>>)
    ELSE SplitFrom(src, k + 1, Append(cur, src[k]))

\* The lines of the source, indexed from 0.
Split(src) ==
    LET segs == SplitFrom(src, 1, <<>>)
    IN  [i \in 0 .. Len(segs) - 1 |-> segs[i + 1]]

\* The source bytes of a file with the given lines.
RECURSIVE JoinLines(_)
JoinLines(texts) ==
    IF Len(texts) = 0 THEN <<>>
    ELSE IF Len(texts) = 1 THEN texts[1]
    ELSE texts[1] \o <<"\n">> \o JoinLines(Tail(texts))

\* --------------------------------------------------------------- state

VARIABLES
    pc,                 \* "new" before NewTreeContext, "ready" after, "calling" inside a
                        \* stepwise AddContext, "panicked" once a call panicked
    lastOp,             \* the operation called last
    ret,                \* what that call returned
    source,             \* the source bytes given to NewTreeContext
    tree,               \* the syntax tree the parsing backend returns for them
    options,            \* the TreeContextOptions given to NewTreeContext
    lines,              \* tc.lines
    numLines,           \* tc.numLines
    outputLines,        \* tc.outputLines
    scopes,             \* tc.scopes
    header,             \* tc.header
    nodes,              \* tc.nodes
    showLines,          \* tc.showLines
    linesOfInterest,    \* tc.linesOfInterest
    doneParentScopes,   \* tc.doneParentScopes
    stack,              \* the frames of the AddContext call in progress, innermost last
    expansions          \* how often addParentScopes went past its memo, per line (a bag)

vars == << pc, lastOp, ret, source, tree, options, lines, numLines, outputLines,
           scopes, header, nodes, showLines, linesOfInterest, doneParentScopes,
           stack, expansions >>

index == << lines, numLines, scopes, header, nodes >>

inputs == << source, tree, options >>

calls == << stack, expansions >>

NoValue == [kind |-> "none"]

\* The read-only part of the TreeContext that the expander consults.
Ctx ==
    [ tree |-> tree, lines |-> lines, numLines |-> numLines, scopes |-> scopes,
      header |-> header, nodes |-> nodes,
      showTop |-> options.ShowTopOfFileParentScope, lastLine |-> options.ShowLastLine,
      parentContext |-> options.ShowParentContext, childContext |-> options.ShowChildContext,
      loiPad |-> options.LinesOfInterestPadding, margin |-> options.MarginPadding ]

\* The state before NewTreeContext is called on the given inputs.
InitWith(src, t, opts) ==
    /\ pc = "new"
    /\ lastOp = "none"
    /\ ret = NoValue
    /\ source = src
    /\ tree = t
    /\ options = opts
    /\ lines = <<>>
    /\ numLines = 0
    /\ outputLines = [i \in {} |-> <<>>]
    /\ scopes = <<>>
    /\ header = <<>>
    /\ nodes = <<>>
    /\ showLines = {}
    /\ linesOfInterest = {}
    /\ doneParentScopes = {}
    /\ stack = <<>>
    /\ expansions = EmptyBag

\* ---------------------------------------------------------- operations

\* NewTreeContext(filename, source, options): split the source, allocate
\* the per-line maps, walk the tree from its root and finalise the headers.
NewTreeContext ==
    /\ pc = "new"
    /\ LET ls  == Split(source)
           n   == Len0(ls)
           idx == walkTree(tree, EmptyIndex(n), 1)
       IN  /\ lines' = ls
           /\ numLines' = n + 1
           /\ scopes' = idx.scopes
           /\ nodes' = idx.nodes
           /\ header' = postWalkProcessing(idx.header, n + 1, options.HeaderMax)
    /\ outputLines' = [i \in {} |-> <<>>]
    /\ showLines' = {}
    /\ linesOfInterest' = {}
    /\ doneParentScopes' = {}
    /\ pc' = "ready"
    /\ lastOp' = "NewTreeContext"
    /\ ret' = NoValue
    /\ UNCHANGED << inputs, calls >>

\* The patterns a caller passes to Grep.
Patterns == {"a", "("}

\* The highlight map after Grep matched the lines of found.
Highlight(out, re, ls, found) ==
    [i \in DOMAIN out \cup found |->
        IF i \in found THEN ReplaceAllStringFunc(re, ls[i]) ELSE out[i]]

\* Grep(pat, ignoreCase): regexp.MustCompile panics on a pattern that does
\* not compile; otherwise every matching line is returned and, under
\* colour, its highlighted form stored.
Grep(pat, ignoreCase) ==
    /\ pc = "ready"
    /\ lastOp' = "Grep"
    /\ IF ~Compiles(pat)
       THEN /\ pc' = "panicked"
            /\ ret' = [kind |-> "panic"]
            /\ outputLines' = outputLines
       ELSE LET re    == CompilePattern(pat, ignoreCase)
                found == { i \in DOMAIN lines : FindStringIndex(re, lines[i]) }
            IN  /\ pc' = "ready"
                /\ ret' = [kind |-> "found", lines |-> found]
                /\ outputLines' = IF options.Color
                                  THEN Highlight(outputLines, re, lines, found)
                                  ELSE outputLines
    /\ UNCHANGED << inputs, index, showLines, linesOfInterest, doneParentScopes, calls >>

\* AddLinesOfInterest(lineNums)
AddLinesOfInterest(lineNums) ==
    /\ pc = "ready"
    /\ linesOfInterest' = linesOfInterest \cup lineNums
    /\ lastOp' = "AddLinesOfInterest"
    /\ ret' = NoValue
    /\ UNCHANGED << pc, inputs, index, outputLines, showLines, doneParentScopes, calls >>

\* AddContext(): order is the order in which the range loops visit the map
\* linesOfInterest.
AddContext(order) ==
    /\ pc = "ready"
    /\ LET st == AddContextFrom(Ctx, linesOfInterest,
                                [show |-> showLines, done |-> doneParentScopes], order)
       IN  /\ showLines' = st.show
           /\ doneParentScopes' = st.done
    /\ lastOp' = "AddContext"
    /\ ret' = NoValue
    /\ UNCHANGED << pc, inputs, index, outputLines, linesOfInterest, calls >>

\* Format()
FormatCall ==
    /\ pc = "ready"
    /\ ret' = [kind |-> "text",
               out  |-> Format([lines |-> lines, show |-> showLines, loi |-> linesOfInterest,
                                out |-> outputLines, color |-> options.Color,
                                lineNumber |-> options.ShowLineNumber,
                                markLOIs |-> options.MarkLinesOfInterest])]
    /\ lastOp' = "Format"
    /\ UNCHANGED << pc, inputs, index, outputLines, showLines, linesOfInterest,
                    doneParentScopes, calls >>

\* ------------------------------------------------------ specifications

\* The options with everything off but HeaderMax.
PlainOptions(hMax) ==
    [ Color |-> FALSE, ShowLineNumber |-> FALSE, ShowParentContext |-> FALSE,
      ShowChildContext |-> FALSE, ShowLastLine |-> FALSE, MarginPadding |-> 0,
      MarkLinesOfInterest |-> FALSE, HeaderMax |-> hMax,
      ShowTopOfFileParentScope |-> FALSE, LinesOfInterestPadding |-> 0 ]

\* A file of L lines, each holding the letter a.
PlainFile(L) == JoinLines([k \in 1 .. L |-> <<"a">>])

\* The index specification: construction alone, over every file length up
\* to MaxLines, every syntax tree of up to MaxNodes nodes and every HeaderMax
\* up to MaxHeader.
InitIndex ==
    \E L \in 1 .. MaxLines :
        \E t \in TreesUpTo(L, MaxNodes) :
            \E h \in 0 .. MaxHeader :
                InitWith(PlainFile(L), t, PlainOptions(h))

SpecIndex == InitIndex /\ [][NewTreeContext]_vars

\* The letter a text line holds, by its position: a, A, b, a, ...
LetterAt(i) == IF i % 3 = 0 THEN "a" ELSE IF i % 3 = 1 THEN "A" ELSE "b"

\* A file of L lines of which those of blank hold one space and the others
\* one letter.
FileWithBlanks(L, blank) ==
    JoinLines([k \in 1 .. L |-> IF (k - 1) \in blank THEN <<" ">> ELSE <<LetterAt(k - 1)>>])

\* The syntax trees of up to n nodes whose root spans the whole file.
RootedTrees(L, n) == { t \in TreesUpTo(L, n) : t[1].start = 0 /\ t[1].end = L - 1 }

\* Files with blank lines: FileLines lines, up to MaxBlank of them blank,
\* under a scope from line 1 to the line before last inside the root, with
\* parent context; padding and margin vary.
InitBlanks ==
    \E blank \in { b \in SUBSET (0 .. FileLines - 1) : Cardinality(b) <= MaxBlank } :
        \E pad \in 0 .. MaxPad, margin \in 0 .. MaxMargin :
            InitWith(FileWithBlanks(FileLines, blank),
                     << [start |-> 0, end |-> FileLines - 1, parent |-> 0],
                        [start |-> 1, end |-> FileLines - 2, parent |-> 1] >>,
                     [ PlainOptions(1) EXCEPT
                         !.ShowParentContext = TRUE,
                         !.LinesOfInterestPadding = pad,
                         !.MarginPadding = margin ])

\* Colour: the same files with no blank line or with line 1 blank, under
\* colour; line numbers and marks vary.
InitColour ==
    \E blank \in { {}, {1} } :
        \E number \in BOOLEAN, mark \in BOOLEAN :
            InitWith(FileWithBlanks(FileLines, blank),
                     << [start |-> 0, end |-> FileLines - 1, parent |-> 0],
                        [start |-> 1, end |-> FileLines - 2, parent |-> 1] >>,
                     [ PlainOptions(1) EXCEPT
                         !.ShowParentContext = TRUE,
                         !.Color = TRUE,
                         !.ShowLineNumber = number,
                         !.MarkLinesOfInterest = mark ])

\* Scopes: a file of ScopeLines text lines under every tree of up to
\* ScopeNodes nodes rooted over the whole file, with parent context; the
\* last line and the top-of-file scope vary, HeaderMax is 1 or MaxHeader.
InitScopes ==
    \E t \in RootedTrees(ScopeLines, ScopeNodes) :
        \E last \in BOOLEAN, top \in BOOLEAN :
            \E h \in {1, MaxHeader} :
                InitWith(PlainFile(ScopeLines), t,
                         [ PlainOptions(h) EXCEPT
                             !.ShowParentContext = TRUE,
                             !.ShowLastLine = last,
                             !.ShowTopOfFileParentScope = top ])

\* Large scopes: a file of LongLines text lines whose root spans the whole
\* file, alone or with one scope inside it that ends on the last line, with
\* child context and a HeaderMax that cuts no header; parent context, the
\* last line and the top-of-file scope vary.
InitLong ==
    \E t \in { x \in RootedTrees(LongLines, 2) : x[Len(x)].end = LongLines - 1 } :
        \E parent \in BOOLEAN, last \in BOOLEAN, top \in BOOLEAN :
            InitWith(PlainFile(LongLines), t,
                     [ PlainOptions(LongLines) EXCEPT
                         !.ShowChildContext = TRUE,
                         !.ShowParentContext = parent,
                         !.ShowLastLine = last,
                         !.ShowTopOfFileParentScope = top ])

Init == InitBlanks \/ InitColour \/ InitScopes \/ InitLong

\* The line sets a caller passes to AddLinesOfInterest: one line, in range
\* or just past the index, or what the last Grep returned.
LineInputs ==
    { {i} : i \in 0 .. numLines } \cup (IF ret.kind = "found" THEN {ret.lines} ELSE {})

Next ==
    \/ NewTreeContext
    \/ \E pat \in Patterns, ignoreCase \in BOOLEAN : Grep(pat, ignoreCase)
    \/ \E lineNums \in LineInputs :
          /\ Cardinality(linesOfInterest \cup lineNums) <= MaxInterest
          /\ AddLinesOfInterest(lineNums)
    \/ \E order \in RangeOrders(linesOfInterest) : AddContext(order)
    \/ FormatCall

Spec == Init /\ [][Next]_vars

\* ------------------------------------------- AddContext, step by step

\* The frames of the call stack.  AddContext is at its trailing-line pass
\* ("bottom"), in its range loop over linesOfInterest for the parent pass or
\* the child pass, with rest the keys the range has yet to yield, or at its
\* margin and gap-closing passes ("finish").
AddContextFrame(at, rest) == [fn |-> "AddContext", at |-> at, rest |-> rest]

\* addChildContext in its loop over the sorted children, before child k.
ChildFrame(children, k, limit) ==
    [fn |-> "addChildContext", children |-> children, k |-> k, limit |-> limit]

\* addParentScopes(i) on entry, before its range and memo tests.
ParentEntry(i) == [fn |-> "addParentScopes", at |-> "entry", i |-> i, rest |-> {}]

\* addParentScopes(i) in its range loop over tc.scopes[i], with rest the keys
\* the range has yet to yield.
ParentLoop(i, rest) == [fn |-> "addParentScopes", at |-> "loop", i |-> i, rest |-> rest]

Top == stack[Len(stack)]

Caller == SubSeq(stack, 1, Len(stack) - 1)

Running(fn) == pc = "calling" /\ stack # <<>> /\ Top.fn = fn

\* addParentScopes with the memo test left out.
MemoisedNever(done, i) == FALSE

\* The memo test of addParentScopes.
Memoised(done, i) == i \in done

\* AddContext() is called: with no line of interest it returns at once;
\* otherwise it seeds showLines, pads, and goes on to the trailing-line pass.
AddContextBegin ==
    /\ pc = "ready"
    /\ stack = <<>>
    /\ IF linesOfInterest = {}
       THEN /\ lastOp' = "AddContext"
            /\ ret' = NoValue
            /\ UNCHANGED << pc, showLines, stack >>
       ELSE /\ showLines' = PadLines(showLines \cup linesOfInterest,
                                     options.LinesOfInterestPadding, numLines)
            /\ stack' = << AddContextFrame("bottom", {}) >>
            /\ pc' = "calling"
            /\ UNCHANGED << lastOp, ret >>
    /\ UNCHANGED << inputs, index, outputLines, linesOfInterest, doneParentScopes, expansions >>

\* The trailing-line pass: show the bottom line and call addParentScopes on it.
AddContextBottomLine ==
    /\ Running("AddContext")
    /\ Top.at = "bottom"
    /\ LET parentPass == AddContextFrame("parent", IF options.ShowParentContext
                                                   THEN linesOfInterest ELSE {})
           bottomLine == numLines - 2
       IN  IF options.ShowLastLine
           THEN /\ showLines' = showLines \cup {bottomLine}
                /\ stack' = Caller \o << parentPass, ParentEntry(bottomLine) >>
           ELSE /\ showLines' = showLines
                /\ stack' = Caller \o << parentPass >>
    /\ UNCHANGED << pc, lastOp, ret, inputs, index, outputLines, linesOfInterest,
                    doneParentScopes, expansions >>

\* The parent pass: the range yields one more line of interest, on which
\* addParentScopes is called, or it is over.
AddContextParentLoop ==
    /\ Running("AddContext")
    /\ Top.at = "parent"
    /\ IF Top.rest = {}
       THEN stack' = Caller \o << AddContextFrame("child", IF options.ShowChildContext
                                                          THEN linesOfInterest ELSE {}) >>
       ELSE \E i \in Top.rest :
               stack' = Caller \o << AddContextFrame("parent", Top.rest \ {i}), ParentEntry(i) >>
    /\ UNCHANGED << pc, lastOp, ret, inputs, index, outputLines, showLines, linesOfInterest,
                    doneParentScopes, expansions >>

\* The child pass: the range yields one more line of interest i, on which
\* addChildContext is called, or it is over.  addChildContext(i) returns at
\* once for a line out of range or with no node, shows a scope of fewer than
\* 5 lines whole, and otherwise enters its loop over the sorted children.
AddContextChildLoop ==
    /\ Running("AddContext")
    /\ Top.at = "child"
    /\ IF Top.rest = {}
       THEN /\ stack' = Caller \o << AddContextFrame("finish", {}) >>
            /\ showLines' = showLines
       ELSE \E i \in Top.rest :
               LET back     == Caller \o << AddContextFrame("child", Top.rest \ {i}) >>
                   lastLine == getLastLineOfScope(tree, nodes, i)
                   size     == lastLine - i
               IN  IF i < 0 \/ i >= Len0(nodes) \/ Len(nodes[i]) = 0 \/ size < 0
                   THEN /\ stack' = back
                        /\ showLines' = showLines
                   ELSE IF size < 5
                   THEN /\ stack' = back
                        /\ showLines' = showLines \cup { line \in i .. lastLine : line < numLines }
                   ELSE /\ stack' = back \o
                              << ChildFrame(sortNodesBySize(tree, GatherChildren(tree, nodes[i], 1)),
                                            1, Cardinality(showLines) + ComputedMax(size)) >>
                        /\ showLines' = showLines
    /\ UNCHANGED << pc, lastOp, ret, inputs, index, outputLines, linesOfInterest,
                    doneParentScopes, expansions >>

\* The loop of addChildContext: stop after the last child or once more than
\* computedMax lines were added, else call addParentScopes on the first
\* line of child k.
addChildContextLoop ==
    /\ Running("addChildContext")
    /\ IF Top.k > Len(Top.children) \/ Cardinality(showLines) > Top.limit
       THEN stack' = Caller
       ELSE stack' = Caller \o << [Top EXCEPT !.k = @ + 1],
                                  ParentEntry(tree[Top.children[Top.k]].start) >>
    /\ UNCHANGED << pc, lastOp, ret, inputs, index, outputLines, showLines, linesOfInterest,
                    doneParentScopes, expansions >>

\* addParentScopes(i) begins: it returns at once for a line out of range or
\* already in doneParentScopes, else it records the line there and enters
\* its range loop over tc.scopes[i].
addParentScopesEntry ==
    /\ Running("addParentScopes")
    /\ Top.at = "entry"
    /\ IF Top.i < 0 \/ Top.i >= Len0(scopes)
       THEN /\ stack' = Caller
            /\ UNCHANGED << doneParentScopes, expansions >>
       ELSE IF Memoised(doneParentScopes, Top.i)
       THEN /\ stack' = Caller
            /\ UNCHANGED << doneParentScopes, expansions >>
       ELSE /\ doneParentScopes' = doneParentScopes \cup {Top.i}
            /\ expansions' = expansions (+) SetToBag({Top.i})
            /\ stack' = Caller \o << ParentLoop(Top.i, scopes[Top.i]) >>
    /\ UNCHANGED << pc, lastOp, ret, inputs, index, outputLines, showLines, linesOfInterest >>

\* The loop of addParentScopes: the range yields one more scope lineNum of
\* the line, whose header is revealed and, under lastLine, on whose last line
\* addParentScopes is called; or the loop is over and the call returns.
addParentScopesLoop ==
    /\ Running("addParentScopes")
    /\ Top.at = "loop"
    /\ IF Top.rest = {}
       THEN /\ stack' = Caller
            /\ showLines' = showLines
       ELSE \E lineNum \in Top.rest :
               LET back == Caller \o << ParentLoop(Top.i, Top.rest \ {lineNum}) >>
               IN  /\ showLines' = showLines \cup
                          RevealHeader(header[lineNum], numLines, options.ShowTopOfFileParentScope)
                   /\ stack' = IF options.ShowLastLine /\ Len(header[lineNum]) >= 2
                               THEN back \o << ParentEntry(getLastLineOfScope(tree, nodes, lineNum)) >>
                               ELSE back
    /\ UNCHANGED << pc, lastOp, ret, inputs, index, outputLines, linesOfInterest,
                    doneParentScopes, expansions >>

\* The margin and gap-closing passes, after which AddContext returns.
AddContextFinish ==
    /\ Running("AddContext")
    /\ Top.at = "finish"
    /\ showLines' = closeSmallGaps(lines, numLines,
                                   MarginPass(showLines, options.MarginPadding, numLines))
    /\ stack' = <<>>
    /\ pc' = "ready"
    /\ lastOp' = "AddContext"
    /\ ret' = NoValue
    /\ UNCHANGED << inputs, index, outputLines, linesOfInterest, doneParentScopes, expansions >>

\* One step of the AddContext call in progress.
AddContextStep ==
    \/ AddContextBottomLine
    \/ AddContextParentLoop
    \/ AddContextChildLoop
    \/ addChildContextLoop
    \/ addParentScopesEntry
    \/ addParentScopesLoop
    \/ AddContextFinish

\* The stepwise specification: the scope and large-scope files, lines of
\* interest added between calls, and AddContext run step by step.
InitParents == InitScopes \/ InitLong

NextParents ==
    \/ NewTreeContext
    \/ \E lineNums \in LineInputs :
          /\ Cardinality(linesOfInterest \cup lineNums) <= MaxInterest
          /\ AddLinesOfInterest(lineNums)
    \/ AddContextBegin
    \/ AddContextStep

SpecParents == InitParents /\ [][NextParents]_vars

\* ------------------------------------------- claims about the index

Constructed == pc = "ready"

Span(k) == tree[k].end - tree[k].start

\* The nodes with a span above 0 that start on line s (the scope owners).
OwnersAt(s) == { k \in 1 .. Len(tree) : tree[k].start = s /\ Span(k) > 0 }

\* The last scope owner of line s in pre-order.
LastOwnerAt(s) == CHOOSE k \in OwnersAt(s) : \A j \in OwnersAt(s) : j <= k

\* The header interval a node's candidate gives under the HeaderMax clamp.
IntervalOf(k) ==
    << tree[k].start,
       IF Span(k) > options.HeaderMax THEN tree[k].start + options.HeaderMax ELSE tree[k].end >>

\* C4 as stated: after construction, for every node whose span exceeds
\* HeaderMax, the header interval of its start line begins at that line and
\* holds exactly HeaderMax lines.
C4_Original ==
    Constructed =>
        \A k \in 1 .. Len(tree) :
            Span(k) > options.HeaderMax =>
                header[tree[k].start] = << tree[k].start, tree[k].start + options.HeaderMax >>

\* C4 amended: after construction, for every line whose kept header candidate
\* (that of the last node in pre-order that starts there with a span above 0)
\* has a span above HeaderMax, the header interval begins at that line and
\* holds exactly HeaderMax lines.
C4_HeaderClamp ==
    Constructed =>
        \A s \in 0 .. numLines - 1 :
            (OwnersAt(s) # {} /\ Span(LastOwnerAt(s)) > options.HeaderMax) =>
                /\ header[s][1] = s
                /\ header[s][2] - header[s][1] = options.HeaderMax

\* A constructed context with a node starting after line 0 whose span is
\* above HeaderMax and whose header is therefore cut to HeaderMax lines.
C4_Witness ==
    /\ Constructed
    /\ \E s \in 1 .. numLines - 1 :
          /\ OwnersAt(s) # {}
          /\ Span(LastOwnerAt(s)) > options.HeaderMax
          /\ options.HeaderMax > 0
          /\ header[s] = << s, s + options.HeaderMax >>

\* C8 as stated: after construction, when nodes with a span above 0 start on
\* a line, the header of that line comes from the one with the largest span.
C8_Original ==
    Constructed =>
        \A s \in 0 .. numLines - 1 :
            \A k \in OwnersAt(s) :
                (\A j \in OwnersAt(s) : Span(j) <= Span(k)) => header[s] = IntervalOf(k)

\* C8 amended: after construction, when nodes with a span above 0 start on a
\* line, the header of that line comes from the last of them in pre-order,
\* which is the one with the smallest span.
C8_LastOwnerWins ==
    Constructed =>
        \A s \in 0 .. numLines - 1 :
            OwnersAt(s) # {} =>
                /\ header[s] = IntervalOf(LastOwnerAt(s))
                /\ \A j \in OwnersAt(s) : Span(LastOwnerAt(s)) <= Span(j)

\* A constructed context where two nodes of different spans, both above 0 and
\* neither above HeaderMax, start on one line, whose header is the smaller's.
C8_Witness ==
    /\ Constructed
    /\ \E s \in 0 .. numLines - 1 :
          \E j, k \in OwnersAt(s) :
              /\ j < k
              /\ Span(j) > Span(k)
              /\ Span(j) <= options.HeaderMax
              /\ k = LastOwnerAt(s)
              /\ header[s] = << s, tree[k].end >>

\* C9 as stated: after construction, every line on which no node with a span
\* above 0 starts has the header interval [i, i+1).
C9_TrivialInterval ==
    Constructed =>
        \A i \in 0 .. numLines - 1 :
            OwnersAt(i) = {} => header[i] = << i, i + 1 >>

\* -------------------------------- claims about expansion and rendering

Expanded == lastOp = "AddContext"

SecondAddContext == lastOp = "AddContext" /\ lastOp' = "AddContext"

\* C2 as stated: under every option setting, an AddContext call right after
\* an AddContext call leaves the lines to show as they are.
C2_Original == [][SecondAddContext => showLines' = showLines]_vars

NoBlankLine == \A i \in DOMAIN lines : ~IsBlank(lines[i])

\* C2 amended: with a padding radius of 0, child context off and no blank
\* line in the source, an AddContext call right after an AddContext call
\* leaves the lines to show as they are (whatever the top margin, the
\* trailing-line, parent-context and top-of-file options).
C2_Idempotent ==
    [][ ( /\ SecondAddContext
          /\ options.LinesOfInterestPadding = 0
          /\ ~options.ShowChildContext
          /\ NoBlankLine ) => showLines' = showLines ]_vars

\* An expanded context as the amended C2 covers it, with lines to show beyond
\* the lines of interest and a gap closed: the state a second AddContext call
\* starts from and, by the claim, ends in.
C2_Witness ==
    /\ Expanded
    /\ options.LinesOfInterestPadding = 0
    /\ ~options.ShowChildContext
    /\ NoBlankLine
    /\ options.ShowLastLine
    /\ \E i \in showLines \ linesOfInterest : {i - 1, i + 1} \subseteq linesOfInterest

\* The budget the claim gives a preview of a scope of span S:
\* round(S*0.10), no less than 5 and no more than 25.
PreviewBudget(S) ==
    LET rounded == (S + 5) \div 10
    IN  IF rounded < 5 THEN 5 ELSE IF rounded > 25 THEN 25 ELSE rounded

\* Whether the call addChildContext(i) made in state st = [show, done] adds
\* no more lines than the budget, when the scope of line i has a span of 5
\* or more.
BudgetKept(st, i) ==
    LET S == getLastLineOfScope(tree, nodes, i) - i
    IN  (i \in DOMAIN nodes /\ Len(nodes[i]) > 0 /\ S >= 5) =>
            Cardinality(addChildContext(Ctx, st, i).show \ st.show) <= PreviewBudget(S)

\* Every addChildContext call of an AddContext call made in the state at
\* hand keeps the budget, each call taken in the state that the passes and
\* the calls before it leave, whatever the order of the range loop.
EveryPreviewKeepsBudget ==
    \A order \in RangeOrders(linesOfInterest) :
        \A k \in 1 .. Len(order) :
            BudgetKept(ChildPass(Ctx,
                                 BeforeChildPass(Ctx, linesOfInterest,
                                                 [show |-> showLines,
                                                  done |-> doneParentScopes],
                                                 order),
                                 SubSeq(order, 1, k - 1), 1),
                       order[k])

\* C3 as stated: every addChildContext(i) call that an AddContext call with
\* child context makes on a line whose scope spans 5 lines or more adds at
\* most clamp(round(S*0.10), 5, 25) lines to the lines to show.
C3_PreviewBudget ==
    [][ (lastOp' = "AddContext" /\ options.ShowChildContext /\ linesOfInterest # {})
            => EveryPreviewKeepsBudget ]_vars

\* What Format wrote, without the colour reset.
Written == SelectSeq(ret.out, LAMBDA piece : piece.kind # "reset")

IsMark(piece) == piece.kind = "ellipsis"

IsLine(piece) == piece.kind = "line"

\* C5: when showLines is not empty, Format writes the shown lines of the
\* file in ascending order, no marker between two adjacent shown lines, and
\* exactly one ellipsis marker for each maximal run of hidden lines: never
\* two markers in a row, a marker between two shown lines only when lines are
\* hidden between them, and one at the start or the end exactly when the
\* first or the last line is hidden.
C5_EllipsisPerRun ==
    (lastOp = "Format" /\ showLines # {}) =>
        LET out == Written
            n   == Len(out)
            L   == Len0(lines)
        IN  /\ n > 0
            /\ { out[k].row : k \in { j \in 1 .. n : IsLine(out[j]) } } = showLines \cap (0 .. L - 1)
            /\ \A j, k \in 1 .. n :
                  (j < k /\ IsLine(out[j]) /\ IsLine(out[k])) => out[j].row < out[k].row
            /\ \A k \in 1 .. n - 1 :
                  /\ ~(IsMark(out[k]) /\ IsMark(out[k + 1]))
                  /\ (IsLine(out[k]) /\ IsLine(out[k + 1])) => out[k + 1].row = out[k].row + 1
                  /\ (IsLine(out[k]) /\ IsMark(out[k + 1])) => (out[k].row + 1) \notin showLines
                  /\ (IsMark(out[k]) /\ IsLine(out[k + 1])) => (out[k + 1].row - 1) \notin showLines
            /\ IsMark(out[1]) <=> 0 \notin showLines
            /\ IsMark(out[n]) <=> (L - 1) \notin showLines

\* Format has written a shown line, one marker for a run of two or more
\* hidden lines, and a shown line after it.
C5_Witness ==
    /\ lastOp = "Format"
    /\ \E k \in 2 .. Len(Written) - 1 :
          /\ IsLine(Written[k - 1])
          /\ IsMark(Written[k])
          /\ IsLine(Written[k + 1])
          /\ Written[k + 1].row >= Written[k - 1].row + 3

\* C6 as stated: a Grep call with a pattern that does not compile returns
\* an InvalidPattern error to its caller, which goes on, with no result set,
\* and leaves the highlight map, the lines of interest and the lines to show
\* as they were.
C6_InvalidPattern ==
    [][ (\E ignoreCase \in BOOLEAN : Grep("(", ignoreCase)) =>
            /\ pc' = "ready"
            /\ ret'.kind = "error"
            /\ UNCHANGED << outputLines, linesOfInterest, showLines >> ]_vars

\* C7: with parent context, after AddContext, for every line of interest i
\* within the index and every scope owner s of i whose header starts after
\* line 0 (or any, with ShowTopOfFileParentScope), every line of the header
\* interval of s that lies within tc.numLines is a line to show.
C7_AncestorHeaders ==
    (Expanded /\ options.ShowParentContext) =>
        \A i \in linesOfInterest \cap DOMAIN scopes :
            \A s \in scopes[i] :
                (header[s][1] > 0 \/ options.ShowTopOfFileParentScope) =>
                    \A ln \in header[s][1] .. header[s][2] - 1 :
                        ln < numLines => ln \in showLines

\* An expanded context with two lines of interest where the header of an
\* enclosing scope, starting after line 0 on a line that is no line of
\* interest, is shown.
C7_Witness ==
    /\ Expanded
    /\ options.ShowParentContext
    /\ Cardinality(linesOfInterest) >= 2
    /\ \E i \in linesOfInterest \cap DOMAIN scopes :
          \E s \in scopes[i] :
              /\ s # i
              /\ header[s][1] > 0
              /\ header[s][1] < header[s][2]
              /\ header[s][1] \notin linesOfInterest
              /\ header[s][1] \in showLines

\* Line i is followed by a blank line and is not within 2 lines of the end
\* of the file.
BlankFollows(i) ==
    /\ i \in DOMAIN lines
    /\ (i + 1) \in DOMAIN lines
    /\ IsBlank(lines[i + 1])
    /\ i < numLines - 2

\* C10 as stated: after closeSmallGaps, the blank line that follows a shown
\* line, blank or not, not within 2 lines of the end of the file, is shown.
C10_Original ==
    Constructed => \A i \in showLines : BlankFollows(i) => (i + 1) \in showLines

\* C10 amended: after closeSmallGaps, the blank line that follows a shown
\* line that is not blank itself, not within 2 lines of the end of the file,
\* is shown.
C10_BlankAfterText ==
    Constructed =>
        \A i \in showLines :
            (BlankFollows(i) /\ ~IsBlank(lines[i])) => (i + 1) \in showLines

\* An expanded context, without padding or margin, where the blank line
\* after a line of interest is shown though no line of interest itself and
\* the line after it is hidden.
C10_Witness ==
    /\ Expanded
    /\ options.LinesOfInterestPadding = 0
    /\ options.MarginPadding = 0
    /\ \E i \in linesOfInterest :
          /\ i >= 2
          /\ BlankFollows(i)
          /\ ~IsBlank(lines[i])
          /\ (i + 1) \in showLines \ linesOfInterest
          /\ (i + 2) \notin showLines

\* ------------------------------------- claims about the stepwise AddContext

\* The work a call of AddContext has left, as a natural number.  A frame
\* counts 1 for its return and 2 for every iteration its loop has left, each
\* of which calls addParentScopes once; an iteration of the child pass
\* counts for a whole addChildContext, and a pass of AddContext for the
\* passes after it.  A line that addParentScopes has yet to record in
\* doneParentScopes counts for the loop over all its scopes.
ChildFrameMax == 1 + 2 * Len(tree) * Len(tree)

ChildPassMax == 2 + Cardinality(linesOfInterest) * (2 + ChildFrameMax)

FrameRank(f) ==
    IF f.fn = "addParentScopes"
    THEN 1 + 2 * Cardinality(f.rest)
    ELSE IF f.fn = "addChildContext"
    THEN 1 + 2 * (Len(f.children) + 1 - f.k)
    ELSE IF f.at = "finish" THEN 1
    ELSE IF f.at = "child" THEN 2 + Cardinality(f.rest) * (2 + ChildFrameMax)
    ELSE IF f.at = "parent" THEN ChildPassMax + 1 + 2 * Cardinality(f.rest)
    ELSE ChildPassMax + 1 + 2 * Cardinality(linesOfInterest) + 2

RECURSIVE StackRank(_, _)
StackRank(st, k) == IF k > Len(st) THEN 0 ELSE FrameRank(st[k]) + StackRank(st, k + 1)

NotDone(done) == { i \in 0 .. Len0(scopes) - 1 : i \notin done }

Rank(st, done) == (2 * Len0(scopes) + 1) * Cardinality(NotDone(done)) + StackRank(st, 1)

ExpandedOnce(bag) == \A i \in BagToSet(bag) : CopiesIn(i, bag) <= 1

\* C11: every AddContext call terminates, trailing-line recursion of
\* addParentScopes included: every step of a call leaves strictly less work,
\* a natural number, than it found.  And over the lifetime of the context
\* addParentScopes goes past its memo at most once for each line index.
C11_Terminates ==
    [][AddContextStep =>
          /\ Rank(stack', doneParentScopes') < Rank(stack, doneParentScopes)
          /\ Rank(stack', doneParentScopes') >= 0
          /\ ExpandedOnce(expansions') ]_vars

\* C11 happens: under lastLine, addParentScopes was called from inside its
\* own loop, on the last line of a scope, which it had expanded before.
C11_Witness ==
    /\ options.ShowLastLine
    /\ Len(stack) >= 3
    /\ Top.fn = "addParentScopes" /\ Top.at = "entry"
    /\ stack[Len(stack) - 1].fn = "addParentScopes"
    /\ Top.i \in doneParentScopes

=============================================================================
